---- MODULE Spec2Model ----
(***************************************************************************)
(* AQI monitoring / alerting engine (src/aqimonitor.py, class AQIMonitor)  *)
(* together with the caller of src/app.py and the process-wide `schedule`  *)
(* job list the engine registers its recurring jobs in.                    *)
(*                                                                         *)
(* Processes: process 0 is the caller (the dashboard thread that issues    *)
(* add_location / start_monitoring / stop_monitoring / manual passes);     *)
(* processes 1..MaxStarts are the daemon threads start_monitoring spawns.  *)
(***************************************************************************)
EXTENDS Integers, Sequences, FiniteSets, TLC

VARIABLES
    now,          \* datetime.now(), whole seconds since midnight of day 0
    tick,         \* number of clock advances so far
    locations,    \* self.locations: insertion-ordered dict, as a sequence of entries
    last_alerts,  \* self.last_alerts: name -> timestamp, None when the key is absent
    running,      \* self.running
    jobs,         \* schedule.jobs: the default scheduler's job list (module global)
    starts,       \* number of scheduler threads spawned so far
    proc,         \* per process: control state, run_pending snapshot, pass in progress
    delivered,    \* history: per location, time of the last confirmed alert delivery
    stopReturned, \* history: stop_monitoring has returned and start was not called since
    retryOwed,    \* history: per location, a delivery failed and nothing was recorded since
    scope,        \* the scenario: names registered, threads spawned, histories kept
    peer,         \* a second AQIMonitor of the same process: its running flag
    cv,           \* classifier harness: the input, in units of 1/Scale
    cres          \* classifier harness: the category returned, "pending" before the call

vars == <<now, tick, locations, last_alerts, running, jobs, starts, proc,
          delivered, stopReturned, retryOwed, scope, peer, cv, cres>>

engineVars == <<now, tick, locations, last_alerts, running, jobs, starts, proc,
                delivered, stopReturned, retryOwed, scope, peer>>

-----------------------------------------------------------------------------
(* Bounds and input sets *)

MaxTicks == 3
RestartTicks == 1
MaxStarts == 2
OneThread == 1
Scale == 2

Names == {"A", "B"}
OneName == {"A"}
Lats == {-7}
Lons == {110}
Thresholds == {100}
Readings == {99, 100, 150}
ClockSteps == <<3600, 60, 83340>>
ReportReadings == {40, 60, 100, 101, 150, 151}
RegistryNames == {"A", "a"}
RegistryLats == {-7, -6}
RegistryLons == {106, 110}
RegistryThresholds == {-5, 100, 120}
ClassifyInputs == (0 - Scale) .. (502 * Scale)

-----------------------------------------------------------------------------
(* Program constants *)

None == -1
CooldownSeconds == 3600
SecondsPerDay == 86400
CheckEverySeconds == 30 * 60
MorningReportAt == 8 * 3600
EveningReportAt == 20 * 3600

JobsPerStart == 3
Halves == 2
Caller == 0
Threads == 1 .. MaxStarts
Procs == {Caller} \cup Threads

-----------------------------------------------------------------------------
(* CategoryClassifier: self.aqi_categories and get_aqi_category *)

aqi_categories ==
    << [min |-> 0,   max |-> 50,  category |-> "Good"],
       [min |-> 51,  max |-> 100, category |-> "Moderate"],
       [min |-> 101, max |-> 150, category |-> "Unhealthy for Sensitive"],
       [min |-> 151, max |-> 200, category |-> "Unhealthy"],
       [min |-> 201, max |-> 300, category |-> "Very Unhealthy"],
       [min |-> 301, max |-> 500, category |-> "Hazardous"] >>

Categories == { aqi_categories[i].category : i \in 1 .. Len(aqi_categories) }

\* min_aqi <= aqi <= max_aqi, the reading given in units of 1/Scale
InRange(entry, v) == entry.min * Scale <= v /\ v <= entry.max * Scale

RECURSIVE ScanCategories(_, _)
ScanCategories(i, v) ==
    IF i > Len(aqi_categories) THEN "Unknown"
    ELSE IF InRange(aqi_categories[i], v) THEN aqi_categories[i].category
    ELSE ScanCategories(i + 1, v)

\* a classifier that clamps everything above the last lower bound to the last row
get_aqi_category_clamped(v) ==
    IF v >= aqi_categories[Len(aqi_categories)].min * Scale
    THEN aqi_categories[Len(aqi_categories)].category
    ELSE ScanCategories(1, v)

get_aqi_category(v) == ScanCategories(1, v)

\* position of a category in the table, 0 for the first row; -1 for "Unknown"
Tier(c) ==
    IF c \in Categories
    THEN (CHOOSE i \in 1 .. Len(aqi_categories) : aqi_categories[i].category = c) - 1
    ELSE -1

-----------------------------------------------------------------------------
(* LocationRegistry: self.locations and add_location *)

Entry(name, lat, lon, alert_threshold) ==
    [name |-> name, lat |-> lat, lon |-> lon, alert_threshold |-> alert_threshold]

HasLocation(locs, name) == \E i \in 1 .. Len(locs) : locs[i].name = name

\* a registration that adds an entry whether or not the name is there already
add_location_append(locs, name, lat, lon, alert_threshold) ==
    Append(locs, Entry(name, lat, lon, alert_threshold))

\* self.locations[name] = {...}: a new key is appended, an existing key keeps its place
add_location(locs, name, lat, lon, alert_threshold) ==
    IF HasLocation(locs, name)
    THEN [i \in 1 .. Len(locs) |->
            IF locs[i].name = name THEN Entry(name, lat, lon, alert_threshold) ELSE locs[i]]
    ELSE Append(locs, Entry(name, lat, lon, alert_threshold))

-----------------------------------------------------------------------------
(* AlertGate: the inline cooldown test of check_locations *)

\* timedelta.seconds: the seconds field of the normalised (days, seconds) pair
TimedeltaSeconds(d) == d % SecondsPerDay

\* a gate that compares the whole elapsed time (timedelta.total_seconds())
ShouldAlertTotalSeconds(last_alert, t) ==
    last_alert = None \/ (t - last_alert) > CooldownSeconds

\* not last_alert or (datetime.now() - last_alert).seconds > 3600
ShouldAlert(last_alert, t) ==
    last_alert = None \/ TimedeltaSeconds(t - last_alert) > CooldownSeconds

\* a threshold test that does not count equality
BreachStrict(aqi, alert_threshold) == aqi > alert_threshold

\* aqi >= location_data['alert_threshold']
Breach(aqi, alert_threshold) == aqi >= alert_threshold

-----------------------------------------------------------------------------
(* schedule: the module-global default scheduler *)

\* next time of day `at` strictly after t
NextAt(t, at) ==
    IF t % SecondsPerDay < at
    THEN t - (t % SecondsPerDay) + at
    ELSE t - (t % SecondsPerDay) + SecondsPerDay + at

Job(id, func, at, t) ==
    [id |-> id, func |-> func, at |-> at,
     next_run |-> IF at = None THEN t + CheckEverySeconds ELSE NextAt(t, at)]

\* a start that registers the check job and the morning report only
StartJobsNoEvening(firstId, t) ==
    << Job(firstId, "check", None, t),
       Job(firstId + 1, "report", MorningReportAt, t) >>

\* schedule.every(30).minutes.do(...), every().day.at("08:00").do(...), at("20:00")
StartJobs(firstId, t) ==
    << Job(firstId, "check", None, t),
       Job(firstId + 1, "report", MorningReportAt, t),
       Job(firstId + 2, "report", EveningReportAt, t) >>

\* the three jobs start_monitoring of the second engine registers: bound methods
\* of that engine, in the same job list
PeerJobs(t) ==
    << Job(0 - 1, "peer_check", None, t),
       Job(0 - 2, "peer_report", MorningReportAt, t),
       Job(0 - 3, "peer_report", EveningReportAt, t) >>

\* the jobs of js that the second engine registered
PeerJobsOf(js) == SelectSeq(js, LAMBDA job : job.id < 0)

\* Job.should_run
ShouldRun(job, t) == t >= job.next_run

RECURSIVE InsertJob(_, _)
InsertJob(sorted, job) ==
    IF sorted = << >> THEN << job >>
    ELSE IF job.next_run < Head(sorted).next_run THEN << job >> \o sorted
    ELSE << Head(sorted) >> \o InsertJob(Tail(sorted), job)

RECURSIVE SortedDue(_, _, _)
SortedDue(js, t, acc) ==
    IF js = << >> THEN acc
    ELSE SortedDue(Tail(js), t,
                   IF ShouldRun(Head(js), t) THEN InsertJob(acc, Head(js)) ELSE acc)

\* run_pending: sorted(job for job in self.jobs if job.should_run), taken once
RunnableJobs(js, t) ==
    LET due == SortedDue(js, t, << >>)
    IN [i \in 1 .. Len(due) |-> [id |-> due[i].id, func |-> due[i].func]]

\* Job.run -> _schedule_next_run, on the job object if the list still holds it
Reschedule(js, id, t) ==
    [i \in 1 .. Len(js) |->
        IF js[i].id = id THEN Job(js[i].id, js[i].func, js[i].at, t) ELSE js[i]]

-----------------------------------------------------------------------------
(* Passes: check_locations and send_daily_reports, one location at a time *)

\* nothing written to the log for the location at hand
NoLog == [level |-> "none", aqi |-> 0, category |-> "none"]

\* no report composed for the location at hand
NoReport == [morning |-> 0, evening |-> 0, avg |-> 0, summary |-> "none"]

\* no pass in progress
NoPass == [kind |-> "none", pc |-> "idle", idx |-> 0, size |-> 0,
           aqi |-> 0, thr |-> 0, trouble |-> "none",
           log |-> NoLog, report |-> NoReport, attempts |-> [n \in Names |-> 0]]

\* for location_name, location_data in self.locations.items(): the iterator is
\* created over the dict as it is now and remembers its size
BeginPass(kind) == [NoPass EXCEPT !.kind = kind, !.pc = "next", !.size = Len(locations)]

\* first per-location failure of the pass (history carried by the pass)
Troubled(p, what) ==
    IF "trouble" \in scope.observe /\ p.trouble = "none" THEN what ELSE p.trouble

\* a fetch failure that gives up the rest of the pass
OnFetchFailureBreak(p) ==
    [p EXCEPT !.idx = p.size, !.pc = "next", !.trouble = Troubled(p, "fetch")]

\* a fetch failure after which the message is sent all the same
OnFetchFailureSend(p) ==
    [p EXCEPT !.idx = p.idx + 1, !.pc = "send", !.trouble = Troubled(p, "fetch")]

\* if not aqi_data: continue
OnFetchFailure(p) ==
    [p EXCEPT !.idx = p.idx + 1, !.pc = "next", !.trouble = Troubled(p, "fetch")]

\* aqi = aqi_data['aqi'], with location_data bound by the iterator
OnFetchSuccess(p, aqi) ==
    [p EXCEPT !.idx = p.idx + 1, !.pc = "gate", !.aqi = aqi,
              !.thr = locations[p.idx + 1].alert_threshold]

\* both fetches of a report succeeded
OnReportFetched(p) == [p EXCEPT !.idx = p.idx + 1, !.pc = "send"]

\* an alert outcome handler in which a failure or an exception ends the pass early
AfterAlertBreak(p, outcome) ==
    IF outcome = "ok"
    THEN [p EXCEPT !.pc = "record"]
    ELSE [p EXCEPT !.pc = "next", !.idx = p.size, !.aqi = 0, !.thr = 0,
                   !.trouble = Troubled(p, "sink")]

\* an alert outcome handler that goes on to record whatever the outcome was
AfterAlertRecordAlways(p, outcome) == [p EXCEPT !.pc = "record"]

\* an alert outcome handler that sends again after a failure
AfterAlertRetry(p, outcome) ==
    IF outcome = "ok" THEN [p EXCEPT !.pc = "record"] ELSE p

\* success = send_aqi_alert(...): True goes on to record, False falls through to the
\* log line, an exception is caught by `except Exception`; the loop goes on
AfterAlert(p, outcome) ==
    IF outcome = "ok"
    THEN [p EXCEPT !.pc = "record"]
    ELSE [p EXCEPT !.pc = "next", !.aqi = 0, !.thr = 0, !.trouble = Troubled(p, "sink")]

\* a report outcome handler that sends again after a failure
AfterReportRetry(p, outcome) ==
    IF outcome = "ok" THEN [p EXCEPT !.pc = "next"] ELSE p

\* send_daily_report(...): the result is dropped, an exception is caught
AfterReport(p, outcome) ==
    IF outcome = "ok"
    THEN [p EXCEPT !.pc = "next"]
    ELSE [p EXCEPT !.pc = "next", !.trouble = Troubled(p, "sink")]

\* breach and the gate lets it through: the alert is about to be sent
OnAlertDue(p) == [p EXCEPT !.pc = "deliver"]

\* the gate did not let the alert through, or there was no breach: log and loop
AfterNoAlert(p) == [p EXCEPT !.pc = "next", !.aqi = 0, !.thr = 0]

\* self.last_alerts[location_name] = datetime.now(), log and loop
AfterRecord(p) == [p EXCEPT !.pc = "next", !.aqi = 0, !.thr = 0]

LocationName(p) == locations[p.idx].name

\* logger.info(f"{location_name}: AQI {aqi} ({category})"), the category being the
\* one get_aqi_category returned for this reading
InfoRecord(aqi) ==
    [level |-> "info", aqi |-> aqi, category |-> get_aqi_category(aqi * Scale)]

\* logger.error(f"Error checking {location_name}: {e}")
ErrorRecord == [level |-> "error", aqi |-> 0, category |-> "none"]

\* the pass q with what the step wrote to the log for its location (history)
WithLog(q, record) ==
    [q EXCEPT !.log = IF "log" \in scope.observe THEN record ELSE NoLog]

\* the pass q after one more call of the notifier for location n (history)
WithAttempt(q, n) ==
    [q EXCEPT !.attempts[n] = IF "attempts" \in scope.observe THEN @ + 1 ELSE @]

\* a summary whose buckets leave their upper boundary to the next bucket
daily_summary_strict(morning_aqi, evening_aqi) ==
    IF morning_aqi + evening_aqi < 50 * Halves THEN "good"
    ELSE IF morning_aqi + evening_aqi < 100 * Halves THEN "moderate"
    ELSE IF morning_aqi + evening_aqi < 150 * Halves THEN "sensitive"
    ELSE "poor"

\* avg_aqi = (morning_aqi + evening_aqi) / 2 and the if/elif chain on avg_aqi,
\* both sides of each comparison taken in halves
daily_summary(morning_aqi, evening_aqi) ==
    IF morning_aqi + evening_aqi <= 50 * Halves THEN "good"
    ELSE IF morning_aqi + evening_aqi <= 100 * Halves THEN "moderate"
    ELSE IF morning_aqi + evening_aqi <= 150 * Halves THEN "sensitive"
    ELSE "poor"

\* avg_aqi=int(avg_aqi) in send_daily_report: the mean cut to a whole number
\* (readings are not negative, so cutting is rounding down)
int_avg(morning_aqi, evening_aqi) == (morning_aqi + evening_aqi) \div Halves

\* the pass q holding the report composed from the two readings (history)
WithReport(q, morning_aqi, evening_aqi) ==
    [q EXCEPT !.report =
        IF "report" \in scope.observe
        THEN [morning |-> morning_aqi, evening |-> evening_aqi,
              avg |-> int_avg(morning_aqi, evening_aqi),
              summary |-> daily_summary(morning_aqi, evening_aqi)]
        ELSE NoReport]

-----------------------------------------------------------------------------
(* Processes *)

IdleProc == [st |-> "idle", queue |-> << >>, job |-> 0, pass |-> NoPass]
Unborn == [IdleProc EXCEPT !.st = "unborn"]
Dead == [IdleProc EXCEPT !.st = "dead"]

InPass(t) == proc[t].pass.kind # "none"

\* the pass of process t returns: to the caller, or to run_pending's loop over its
\* snapshot after Job.run has rescheduled the job
Returned(t) ==
    IF t = Caller THEN IdleProc
    ELSE [proc[t] EXCEPT !.st = "jobs", !.job = 0, !.pass = NoPass]

\* a RuntimeError leaves the for statement: the caller's command fails, and in a
\* scheduler thread it leaves run_pending and run_scheduler, ending the thread
Raised(t) == IF t = Caller THEN IdleProc ELSE Dead

\* the second engine after AQIMonitor.__init__
NoPeer == [running |-> FALSE]

\* the engine after AQIMonitor.__init__, in the scenario sc
InitEngine(sc) ==
    /\ now = 0
    /\ tick = 0
    /\ locations = << >>
    /\ last_alerts = [n \in Names |-> None]
    /\ running = FALSE
    /\ jobs = << >>
    /\ starts = 0
    /\ proc = [t \in Procs |-> IF t = Caller THEN IdleProc ELSE Unborn]
    /\ delivered = [n \in Names |-> None]
    /\ stopReturned = FALSE
    /\ retryOwed = [n \in Names |-> FALSE]
    /\ scope = sc
    /\ peer = NoPeer

Scenario(names, threads, ticks, observe) ==
    [names |-> names, threads |-> threads, ticks |-> ticks, observe |-> observe]

\* one scheduler thread, every location, per-pass failure history kept
Init ==
    /\ InitEngine(Scenario(Names, OneThread, MaxTicks, {"trouble"}))
    /\ cv = 0
    /\ cres = "pending"

\* time passes: the clock is sampled between passes, a pass (whose network calls
\* carry a 10 s timeout) being short against the steps of the clock
Tick ==
    /\ tick < scope.ticks
    /\ \A t \in Procs : ~InPass(t)
    /\ tick' = tick + 1
    /\ now' = now + ClockSteps[(tick % Len(ClockSteps)) + 1]
    /\ UNCHANGED <<locations, last_alerts, running, jobs, starts, proc,
                   delivered, stopReturned, retryOwed, scope, peer, cv, cres>>

-----------------------------------------------------------------------------
(* Caller commands (src/app.py buttons, AQIMonitor methods) *)

\* a registration that also forgets the alert time kept under the name
AddLocationForgetsAlert(name, lat, lon, alert_threshold) ==
    /\ proc[Caller].st = "idle"
    /\ name \in scope.names
    /\ locations' = add_location(locations, name, lat, lon, alert_threshold)
    /\ last_alerts' = [last_alerts EXCEPT ![name] = None]
    /\ UNCHANGED <<now, tick, running, jobs, starts, proc,
                   delivered, stopReturned, retryOwed, scope, peer, cv, cres>>

\* monitor.add_location(name, lat, lon, threshold)
AddLocation(name, lat, lon, alert_threshold) ==
    /\ proc[Caller].st = "idle"
    /\ name \in scope.names
    /\ locations' = add_location(locations, name, lat, lon, alert_threshold)
    /\ UNCHANGED <<now, tick, last_alerts, running, jobs, starts, proc,
                   delivered, stopReturned, retryOwed, scope, peer, cv, cres>>

\* a start with nothing registered that sets the flag before it gives up
StartRefusedRuns ==
    /\ proc[Caller].st = "idle"
    /\ locations = << >>
    /\ running' = TRUE
    /\ proc' = [proc EXCEPT ![Caller].st = "start_refused"]
    /\ UNCHANGED <<now, tick, locations, last_alerts, jobs, starts,
                   delivered, stopReturned, retryOwed, scope, peer, cv, cres>>

\* start_monitoring with nothing registered: if not self.locations, log an error
StartRefused ==
    /\ proc[Caller].st = "idle"
    /\ locations = << >>
    /\ proc' = [proc EXCEPT ![Caller].st = "start_refused"]
    /\ UNCHANGED <<now, tick, locations, last_alerts, running, jobs, starts,
                   delivered, stopReturned, retryOwed, scope, peer, cv, cres>>

\* ... and return
StartRefusedReturn ==
    /\ proc[Caller].st = "start_refused"
    /\ proc' = [proc EXCEPT ![Caller] = IdleProc]
    /\ UNCHANGED <<now, tick, locations, last_alerts, running, jobs, starts,
                   delivered, stopReturned, retryOwed, scope, peer, cv, cres>>

\* start_monitoring: set the flag, register three jobs on the global scheduler,
\* spawn the daemon thread, then run the initial check_locations in the caller
StartMonitoring ==
    /\ proc[Caller].st = "idle"
    /\ locations # << >>
    /\ starts < scope.threads
    /\ running' = TRUE
    /\ jobs' = jobs \o StartJobs(JobsPerStart * starts + 1, now)
    /\ starts' = starts + 1
    /\ proc' = [proc EXCEPT
                  ![starts + 1] = [IdleProc EXCEPT !.st = "loop"],
                  ![Caller] = [IdleProc EXCEPT !.st = "pass", !.pass = BeginPass("check")]]
    /\ stopReturned' = FALSE
    /\ UNCHANGED <<now, tick, locations, last_alerts, delivered, retryOwed, scope, peer, cv, cres>>

\* stop_monitoring, first statement: self.running = False
StopMonitoring ==
    /\ proc[Caller].st = "idle"
    /\ running' = FALSE
    /\ proc' = [proc EXCEPT ![Caller].st = "stop_clear"]
    /\ UNCHANGED <<now, tick, locations, last_alerts, jobs, starts,
                   delivered, stopReturned, retryOwed, scope, peer, cv, cres>>

\* a stop that returns without clearing the job list
StopReturn ==
    /\ proc[Caller].st = "stop_clear"
    /\ proc' = [proc EXCEPT ![Caller] = IdleProc]
    /\ stopReturned' = TRUE
    /\ UNCHANGED <<now, tick, locations, last_alerts, running, jobs, starts,
                   delivered, retryOwed, scope, peer, cv, cres>>

\* stop_monitoring, second statement: schedule.clear(), then return
StopClear ==
    /\ proc[Caller].st = "stop_clear"
    /\ jobs' = << >>
    /\ proc' = [proc EXCEPT ![Caller] = IdleProc]
    /\ stopReturned' = TRUE
    /\ UNCHANGED <<now, tick, locations, last_alerts, running, starts,
                   delivered, retryOwed, scope, peer, cv, cres>>

\* "Check All Locations Now" / "Send Daily Reports"
ManualPass(kind) ==
    /\ proc[Caller].st = "idle"
    /\ proc' = [proc EXCEPT ![Caller] = [IdleProc EXCEPT !.st = "pass",
                                                         !.pass = BeginPass(kind)]]
    /\ UNCHANGED <<now, tick, locations, last_alerts, running, jobs, starts,
                   delivered, stopReturned, retryOwed, scope, peer, cv, cres>>

-----------------------------------------------------------------------------
(* A second engine in the same process (one AQIMonitor per dashboard session);
   of its threads and passes only what touches the shared job list is kept *)

\* start_monitoring of the second engine
PeerStart ==
    /\ ~peer.running
    /\ peer' = [peer EXCEPT !.running = TRUE]
    /\ jobs' = jobs \o PeerJobs(now)
    /\ UNCHANGED <<now, tick, locations, last_alerts, running, starts, proc,
                   delivered, stopReturned, retryOwed, scope, cv, cres>>

\* stop_monitoring of the second engine: its flag, then schedule.clear()
PeerStop ==
    /\ peer.running
    /\ peer' = [peer EXCEPT !.running = FALSE]
    /\ jobs' = << >>
    /\ UNCHANGED <<now, tick, locations, last_alerts, running, starts, proc,
                   delivered, stopReturned, retryOwed, scope, cv, cres>>

\* a job of the second engine run by this engine's scheduler thread: the pass
\* goes over the second engine's registry and returns
PeerPass(t) ==
    /\ proc[t].pass.kind \in {"peer_check", "peer_report"}
    /\ proc' = [proc EXCEPT ![t] = Returned(t)]
    /\ jobs' = Reschedule(jobs, proc[t].job, now)
    /\ UNCHANGED <<now, tick, locations, last_alerts, running, starts,
                   delivered, stopReturned, retryOwed, scope, peer, cv, cres>>

-----------------------------------------------------------------------------
(* Scheduler thread: run_scheduler *)

\* while self.running:
ThreadLoop(t) ==
    /\ proc[t].st = "loop"
    /\ proc' = [proc EXCEPT ![t] = IF running THEN [proc[t] EXCEPT !.st = "run_pending"]
                                   ELSE Dead]
    /\ UNCHANGED <<now, tick, locations, last_alerts, running, jobs, starts,
                   delivered, stopReturned, retryOwed, scope, peer, cv, cres>>

\* schedule.run_pending(): take the sorted list of the jobs that are due
ThreadRunPending(t) ==
    /\ proc[t].st = "run_pending"
    /\ proc' = [proc EXCEPT ![t] = [proc[t] EXCEPT !.st = "jobs",
                                                   !.queue = RunnableJobs(jobs, now)]]
    /\ UNCHANGED <<now, tick, locations, last_alerts, running, jobs, starts,
                   delivered, stopReturned, retryOwed, scope, peer, cv, cres>>

\* for job in <the list taken>: self._run_job(job); then time.sleep(60)
ThreadNextJob(t) ==
    /\ proc[t].st = "jobs"
    /\ proc' = [proc EXCEPT ![t] =
                  IF proc[t].queue = << >>
                  THEN [proc[t] EXCEPT !.st = "loop"]
                  ELSE [st |-> "job", queue |-> Tail(proc[t].queue),
                        job |-> Head(proc[t].queue).id,
                        pass |-> BeginPass(Head(proc[t].queue).func)]]
    /\ UNCHANGED <<now, tick, locations, last_alerts, running, jobs, starts,
                   delivered, stopReturned, retryOwed, scope, peer, cv, cres>>

-----------------------------------------------------------------------------
(* Pass steps, taken by the caller or by a scheduler thread *)

\* next() on the dict iterator after the dict changed size: RuntimeError
PassRaise(t) ==
    /\ InPass(t)
    /\ proc[t].pass.pc = "next"
    /\ proc[t].pass.size # Len(locations)
    /\ proc' = [proc EXCEPT ![t] = Raised(t)]
    /\ UNCHANGED <<now, tick, locations, last_alerts, running, jobs, starts,
                   delivered, stopReturned, retryOwed, scope, peer, cv, cres>>

\* the iterator is exhausted: the pass returns
PassReturn(t) ==
    /\ InPass(t)
    /\ proc[t].pass.pc = "next"
    /\ proc[t].pass.size = Len(locations)
    /\ proc[t].pass.idx >= Len(locations)
    /\ proc' = [proc EXCEPT ![t] = Returned(t)]
    /\ jobs' = IF t = Caller THEN jobs ELSE Reschedule(jobs, proc[t].job, now)
    /\ UNCHANGED <<now, tick, locations, last_alerts, running, starts,
                   delivered, stopReturned, retryOwed, scope, peer, cv, cres>>

\* check_locations: next location, fetch_aqi_data
CheckFetch(t) ==
    /\ proc[t].pass.kind = "check"
    /\ proc[t].pass.pc = "next"
    /\ proc[t].pass.size = Len(locations)
    /\ proc[t].pass.idx < Len(locations)
    /\ \E r \in Readings \cup {None} :
         proc' = [proc EXCEPT ![t].pass = WithLog(IF r = None THEN OnFetchFailure(@)
                                                  ELSE OnFetchSuccess(@, r), NoLog)]
    /\ UNCHANGED <<now, tick, locations, last_alerts, running, jobs, starts,
                   delivered, stopReturned, retryOwed, scope, peer, cv, cres>>

\* check_locations: classify, compare with the threshold, ask the gate
CheckGate(t) ==
    /\ proc[t].pass.kind = "check"
    /\ proc[t].pass.pc = "gate"
    /\ LET p == proc[t].pass IN
         proc' = [proc EXCEPT ![t].pass =
                    IF /\ Breach(p.aqi, p.thr)
                       /\ ShouldAlert(last_alerts[LocationName(p)], now)
                    THEN OnAlertDue(p)
                    ELSE WithLog(AfterNoAlert(p), InfoRecord(p.aqi))]
    /\ UNCHANGED <<now, tick, locations, last_alerts, running, jobs, starts,
                   delivered, stopReturned, retryOwed, scope, peer, cv, cres>>

\* check_locations: self.notifier.send_aqi_alert(...)
CheckDeliver(t) ==
    /\ proc[t].pass.kind = "check"
    /\ proc[t].pass.pc = "deliver"
    /\ LET p == proc[t].pass
           n == LocationName(p)
       IN \E outcome \in {"ok", "fail", "raise"} :
            /\ proc' = [proc EXCEPT ![t].pass =
                          WithAttempt(
                            WithLog(AfterAlert(p, outcome),
                                    IF outcome = "ok" THEN NoLog
                                    ELSE IF outcome = "fail" THEN InfoRecord(p.aqi)
                                    ELSE ErrorRecord),
                            n)]
            /\ delivered' = IF outcome = "ok" /\ "delivered" \in scope.observe
                            THEN [delivered EXCEPT ![n] = now]
                            ELSE delivered
            /\ retryOwed' = [retryOwed EXCEPT ![n] =
                               /\ "retry" \in scope.observe
                               /\ outcome = "fail"
                               /\ ShouldAlert(last_alerts[n], now)]
    /\ UNCHANGED <<now, tick, locations, last_alerts, running, jobs, starts,
                   stopReturned, scope, peer, cv, cres>>

\* check_locations: if success: self.last_alerts[location_name] = datetime.now()
CheckRecord(t) ==
    /\ proc[t].pass.kind = "check"
    /\ proc[t].pass.pc = "record"
    /\ LET p == proc[t].pass
           n == LocationName(p)
       IN /\ last_alerts' = [last_alerts EXCEPT ![n] = now]
          /\ retryOwed' = [retryOwed EXCEPT ![n] = FALSE]
          /\ proc' = [proc EXCEPT ![t].pass = WithLog(AfterRecord(p), InfoRecord(p.aqi))]
    /\ UNCHANGED <<now, tick, locations, running, jobs, starts,
                   delivered, stopReturned, scope, peer, cv, cres>>

\* send_daily_reports: next location, the two fetches
ReportFetch(t) ==
    /\ proc[t].pass.kind = "report"
    /\ proc[t].pass.pc = "next"
    /\ proc[t].pass.size = Len(locations)
    /\ proc[t].pass.idx < Len(locations)
    /\ \E morning, evening \in ReportReadings \cup {None} :
         proc' = [proc EXCEPT ![t].pass =
                    IF morning = None \/ evening = None THEN OnFetchFailure(@)
                    ELSE WithReport(OnReportFetched(@), morning, evening)]
    /\ UNCHANGED <<now, tick, locations, last_alerts, running, jobs, starts,
                   delivered, stopReturned, retryOwed, scope, peer, cv, cres>>

\* a report delivery that stamps the location as an alert delivery does
ReportDeliverRecording(t) ==
    /\ proc[t].pass.kind = "report"
    /\ proc[t].pass.pc = "send"
    /\ LET p == proc[t].pass
       IN /\ proc' = [proc EXCEPT ![t].pass =
                        WithAttempt([AfterReport(p, "ok") EXCEPT !.report = NoReport],
                                    LocationName(p))]
          /\ last_alerts' = [last_alerts EXCEPT ![LocationName(p)] = now]
    /\ UNCHANGED <<now, tick, locations, running, jobs, starts,
                   delivered, stopReturned, retryOwed, scope, peer, cv, cres>>

\* send_daily_reports: self.notifier.send_daily_report(...)
ReportDeliver(t) ==
    /\ proc[t].pass.kind = "report"
    /\ proc[t].pass.pc = "send"
    /\ LET p == proc[t].pass
       IN \E outcome \in {"ok", "fail", "raise"} :
            proc' = [proc EXCEPT ![t].pass =
                       WithAttempt([AfterReport(p, outcome) EXCEPT !.report = NoReport],
                                   LocationName(p))]
    /\ UNCHANGED <<now, tick, locations, last_alerts, running, jobs, starts,
                   delivered, stopReturned, retryOwed, scope, peer, cv, cres>>

-----------------------------------------------------------------------------

Next ==
    \/ Tick
    \/ \E n \in Names, lat \in Lats, lon \in Lons, thr \in Thresholds :
         AddLocation(n, lat, lon, thr)
    \/ StartRefused
    \/ StartRefusedReturn
    \/ StartMonitoring
    \/ StopMonitoring
    \/ StopClear
    \/ \E kind \in {"check", "report"} : ManualPass(kind)
    \/ \E t \in Threads : ThreadLoop(t)
    \/ \E t \in Threads : ThreadRunPending(t)
    \/ \E t \in Threads : ThreadNextJob(t)
    \/ \E t \in Procs : PassRaise(t)
    \/ \E t \in Procs : PassReturn(t)
    \/ \E t \in Procs : CheckFetch(t)
    \/ \E t \in Procs : CheckGate(t)
    \/ \E t \in Procs : CheckDeliver(t)
    \/ \E t \in Procs : CheckRecord(t)
    \/ \E t \in Procs : ReportFetch(t)
    \/ \E t \in Procs : ReportDeliver(t)

Spec == Init /\ [][Next]_vars

-----------------------------------------------------------------------------
(* The same engine with the delivery times kept as history *)

InitRace ==
    /\ InitEngine(Scenario(Names, OneThread, MaxTicks, {"delivered"}))
    /\ cv = 0
    /\ cres = "pending"

SpecRace == InitRace /\ [][Next]_vars

-----------------------------------------------------------------------------
(* start_monitoring called more than once: MaxStarts threads, one location *)

InitRestart ==
    /\ InitEngine(Scenario(OneName, MaxStarts, RestartTicks, { }))
    /\ cv = 0
    /\ cres = "pending"

\* add_location on the one registered name replaces its entry, so the dict
\* never changes size under a pass and the iterator never raises here
NextRestart ==
    \/ Tick
    \/ \E n \in OneName, lat \in Lats, lon \in Lons, thr \in Thresholds :
         AddLocation(n, lat, lon, thr)
    \/ StartRefused
    \/ StartRefusedReturn
    \/ StartMonitoring
    \/ StopMonitoring
    \/ StopClear
    \/ \E kind \in {"check", "report"} : ManualPass(kind)
    \/ \E t \in Threads : ThreadLoop(t)
    \/ \E t \in Threads : ThreadRunPending(t)
    \/ \E t \in Threads : ThreadNextJob(t)
    \/ \E t \in Procs : PassReturn(t)
    \/ \E t \in Procs : CheckFetch(t)
    \/ \E t \in Procs : CheckGate(t)
    \/ \E t \in Procs : CheckDeliver(t)
    \/ \E t \in Procs : CheckRecord(t)
    \/ \E t \in Procs : ReportFetch(t)
    \/ \E t \in Procs : ReportDeliver(t)

SpecRestart == InitRestart /\ [][NextRestart]_vars

-----------------------------------------------------------------------------
(* The same, with a caller that calls start_monitoring only while stopped *)

\* the Start button of a caller that looks at the engine's flag first
StartWhileStopped == ~running /\ StartMonitoring

NextStopStart ==
    \/ Tick
    \/ \E n \in OneName, lat \in Lats, lon \in Lons, thr \in Thresholds :
         AddLocation(n, lat, lon, thr)
    \/ StartRefused
    \/ StartRefusedReturn
    \/ StartWhileStopped
    \/ StopMonitoring
    \/ StopClear
    \/ \E kind \in {"check", "report"} : ManualPass(kind)
    \/ \E t \in Threads : ThreadLoop(t)
    \/ \E t \in Threads : ThreadRunPending(t)
    \/ \E t \in Threads : ThreadNextJob(t)
    \/ \E t \in Procs : PassReturn(t)
    \/ \E t \in Procs : CheckFetch(t)
    \/ \E t \in Procs : CheckGate(t)
    \/ \E t \in Procs : CheckDeliver(t)
    \/ \E t \in Procs : CheckRecord(t)
    \/ \E t \in Procs : ReportFetch(t)
    \/ \E t \in Procs : ReportDeliver(t)

SpecStopStart == InitRestart /\ [][NextStopStart]_vars

-----------------------------------------------------------------------------
(* Two engines of one process, each started only while stopped *)

InitPeers ==
    /\ InitEngine(Scenario(OneName, OneThread, RestartTicks, { }))
    /\ cv = 0
    /\ cres = "pending"

NextPeers ==
    \/ Tick
    \/ \E n \in OneName, lat \in Lats, lon \in Lons, thr \in Thresholds :
         AddLocation(n, lat, lon, thr)
    \/ StartWhileStopped
    \/ StopMonitoring
    \/ StopClear
    \/ \E kind \in {"check", "report"} : ManualPass(kind)
    \/ PeerStart
    \/ PeerStop
    \/ \E t \in Threads : PeerPass(t)
    \/ \E t \in Threads : ThreadLoop(t)
    \/ \E t \in Threads : ThreadRunPending(t)
    \/ \E t \in Threads : ThreadNextJob(t)
    \/ \E t \in Procs : PassReturn(t)
    \/ \E t \in Procs : CheckFetch(t)
    \/ \E t \in Procs : CheckGate(t)
    \/ \E t \in Procs : CheckDeliver(t)
    \/ \E t \in Procs : CheckRecord(t)
    \/ \E t \in Procs : ReportFetch(t)
    \/ \E t \in Procs : ReportDeliver(t)

SpecPeers == InitPeers /\ [][NextPeers]_vars

-----------------------------------------------------------------------------
(* The engine driven by the caller alone: registration and manual passes *)

InitSeq ==
    /\ InitEngine(Scenario(Names, 0, MaxTicks, {"trouble", "delivered", "retry"}))
    /\ cv = 0
    /\ cres = "pending"

NextSeq ==
    \/ Tick
    \/ \E n \in Names, lat \in Lats, lon \in Lons, thr \in Thresholds :
         AddLocation(n, lat, lon, thr)
    \/ StartRefused
    \/ StartRefusedReturn
    \/ \E kind \in {"check", "report"} : ManualPass(kind)
    \/ PassReturn(Caller)
    \/ CheckFetch(Caller)
    \/ CheckGate(Caller)
    \/ CheckDeliver(Caller)
    \/ CheckRecord(Caller)
    \/ ReportFetch(Caller)
    \/ ReportDeliver(Caller)

SpecSeq == InitSeq /\ [][NextSeq]_vars

-----------------------------------------------------------------------------
(* The caller's passes with what each pass logs, composes and sends kept *)

InitPass ==
    /\ InitEngine(Scenario(Names, 0, 0, {"log", "report", "attempts"}))
    /\ cv = 0
    /\ cres = "pending"

NextPass ==
    \/ \E n \in Names, lat \in Lats, lon \in Lons, thr \in Thresholds :
         AddLocation(n, lat, lon, thr)
    \/ \E kind \in {"check", "report"} : ManualPass(kind)
    \/ PassReturn(Caller)
    \/ CheckFetch(Caller)
    \/ CheckGate(Caller)
    \/ CheckDeliver(Caller)
    \/ CheckRecord(Caller)
    \/ ReportFetch(Caller)
    \/ ReportDeliver(Caller)

SpecPass == InitPass /\ [][NextPass]_vars

-----------------------------------------------------------------------------
(* The registry alone: add_location over several coordinates and thresholds *)

InitRegistry ==
    /\ InitEngine(Scenario(RegistryNames, 0, 0, { }))
    /\ cv = 0
    /\ cres = "pending"

NextRegistry ==
    \E n \in RegistryNames, lat \in RegistryLats, lon \in RegistryLons,
       thr \in RegistryThresholds :
      AddLocation(n, lat, lon, thr)

SpecRegistry == InitRegistry /\ [][NextRegistry]_vars

-----------------------------------------------------------------------------
(* Classifier harness: get_aqi_category applied to one input *)

InitClassify ==
    /\ InitEngine(Scenario({ }, 0, 0, { }))
    /\ cv \in ClassifyInputs
    /\ cres = "pending"

Classify ==
    /\ cres = "pending"
    /\ cres' = get_aqi_category(cv)
    /\ UNCHANGED <<cv, engineVars>>

NextClassify == Classify

SpecClassify == InitClassify /\ [][NextClassify]_vars

-----------------------------------------------------------------------------
(* Steps, as seen from outside the actions *)

\* process t leaves the gate of its check-pass in this step
GateStep(t) ==
    /\ proc[t].pass.kind = "check"
    /\ proc[t].pass.pc = "gate"
    /\ proc'[t] # proc[t]

\* process t gets the outcome of an alert delivery in this step
AlertStep(t) ==
    /\ proc[t].pass.kind = "check"
    /\ proc[t].pass.pc = "deliver"
    /\ proc'[t] # proc[t]

\* process t gets the outcome of a report delivery in this step
ReportStep(t) ==
    /\ proc[t].pass.kind = "report"
    /\ proc[t].pass.pc = "send"
    /\ proc'[t] # proc[t]

\* process t fetches for the next location in this step
FetchStep(t) ==
    /\ InPass(t)
    /\ proc[t].pass.pc = "next"
    /\ proc[t].pass.size = Len(locations)
    /\ proc[t].pass.idx < Len(locations)
    /\ proc'[t] # proc[t]

\* the pass of t is still the same pass, at the same place of the registry
SamePass(t) ==
    /\ proc'[t].st = proc[t].st
    /\ proc'[t].pass.kind = proc[t].pass.kind
    /\ proc'[t].pass.size = proc[t].pass.size

-----------------------------------------------------------------------------
(* C1 .. C10 *)

\* C1: for a breaching location the gate lets the alert through if and only if
\* there is no last-alert timestamp or now - lastAlertTimestamp > 3600 s, for
\* every elapsed time (also for more than one day).
C1_GateComparesElapsedTime ==
    [][\A t \in Procs :
         (GateStep(t) /\ Breach(proc[t].pass.aqi, proc[t].pass.thr))
         => ( proc'[t].pass.pc = "deliver"
              <=> ShouldAlertTotalSeconds(last_alerts[LocationName(proc[t].pass)], now) )
      ]_vars

\* C2: a delivery the sink reports as failed records no timestamp (the cooldown
\* state is what it was), and the next check-pass in which the location still
\* breaches attempts the alert again, whenever it runs.
C2_FailedAlertIsRetried ==
    [][\A t \in Procs :
         /\ (AlertStep(t) /\ proc'[t].pass.pc # "record") => last_alerts' = last_alerts
         /\ ( /\ GateStep(t)
              /\ Breach(proc[t].pass.aqi, proc[t].pass.thr)
              /\ retryOwed[LocationName(proc[t].pass)] )
            => proc'[t].pass.pc = "deliver"
      ]_vars

\* C3: any two successful alert deliveries for one location are more than the
\* cooldown window (3600 s) apart, in every interleaving of a manual check-pass
\* with a scheduled one.
C3_DeliveriesAreCooldownApart ==
    [][\A t \in Procs :
         ( /\ AlertStep(t)
           /\ proc'[t].pass.pc = "record"
           /\ delivered[LocationName(proc[t].pass)] # None )
         => now - delivered[LocationName(proc[t].pass)] > CooldownSeconds
      ]_vars

\* C4: after stop() has returned no scheduled check-pass or report-pass begins;
\* a job that was due but not begun when stop() was called is not run.
C4_NoPassBeginsAfterStop ==
    [][stopReturned
       => \A t \in Threads : ~(proc[t].st = "jobs" /\ proc'[t].st = "job")
      ]_vars

JobIds(js) == { js[i].id : i \in 1 .. Len(js) }

\* C5: start() while Running leaves the set of registered recurring jobs and the
\* number of scheduler threads as they were.
C5_StartWhileRunningChangesNothing ==
    [][running => (starts' = starts /\ JobIds(jobs') = JobIds(jobs))]_vars

\* C6: a fetch failure skips only its own location: the pass moves on to the next
\* location, no step of a check-pass skips a location, and the pass returns only
\* after the last one, so every other location is still fetched and, on a breach
\* the gate lets through, has its alert attempted in the same pass.
C6_FetchFailureSkipsOneLocation ==
    [][\A t \in Procs :
         /\ ( /\ FetchStep(t)
              /\ proc[t].pass.kind = "check"
              /\ proc'[t].pass.pc # "gate" )
            => /\ SamePass(t)
               /\ proc'[t].pass.pc = "next"
               /\ proc'[t].pass.idx = proc[t].pass.idx + 1
         /\ (proc[t].pass.kind = "check" /\ proc'[t].pass.kind = "check")
            => proc'[t].pass.idx \in {proc[t].pass.idx, proc[t].pass.idx + 1}
         /\ ( /\ proc[t].pass.kind = "check"
              /\ proc'[t].pass.kind = "none"
              /\ proc[t].pass.size = Len(locations) )
            => proc[t].pass.idx = Len(locations)
      ]_vars

\* C6 witness: the first location's fetch failed and the alert of the second
\* location is being attempted in the same pass
C6_Witness ==
    \E t \in Procs :
      /\ proc[t].pass.kind = "check"
      /\ proc[t].pass.trouble = "fetch"
      /\ proc[t].pass.idx = 2
      /\ proc[t].pass.pc = "deliver"

\* C7: no per-location failure (the sink reporting failure, an exception while
\* delivering, a failed fetch) aborts a check-pass or a report-pass: the pass
\* stays in progress with every remaining location still to come, and a
\* scheduler thread running it stays alive.
C7_FailureDoesNotAbortPass ==
    [][\A t \in Procs :
         /\ ((AlertStep(t) /\ proc'[t].pass.pc # "record") \/ ReportStep(t))
            => /\ SamePass(t)
               /\ proc'[t].pass.pc = "next"
               /\ proc'[t].pass.idx = proc[t].pass.idx
         /\ (FetchStep(t) /\ proc'[t].pass.pc = "next")
            => /\ SamePass(t)
               /\ proc'[t].pass.idx = proc[t].pass.idx + 1
      ]_vars

\* C7 witness: a scheduler thread is working on the second location of a pass
\* whose first location's delivery failed
C7_Witness ==
    \E t \in Threads :
      /\ proc[t].st = "job"
      /\ proc[t].pass.trouble = "sink"
      /\ proc[t].pass.idx = 2
      /\ proc[t].pass.pc \in {"gate", "deliver", "send"}

\* every row of the table the input falls in
MatchingRows(v) == { i \in 1 .. Len(aqi_categories) : InRange(aqi_categories[i], v) }

\* C8: for every numeric v in [0, 500], integer or not, classify(v) is exactly one
\* of the six categories, never Unknown, and the tier does not decrease as v grows.
C8_EveryValueInRangeHasACategory ==
    (cres # "pending" /\ 0 <= cv /\ cv <= 500 * Scale)
    => /\ cres \in Categories
       /\ Cardinality(MatchingRows(cv)) = 1
       /\ \A w \in ClassifyInputs :
            (0 <= w /\ w <= cv) => Tier(get_aqi_category(w)) <= Tier(cres)

C10_AttemptIffBreachAndGate ==
    [][\A t \in Procs :
         /\ GateStep(t)
            => /\ proc'[t].pass.pc = "deliver"
                  <=> ( /\ proc[t].pass.aqi >= proc[t].pass.thr
                        /\ ShouldAlert(last_alerts[LocationName(proc[t].pass)], now) )
               /\ proc'[t].pass.pc \in {"deliver", "next"}
               /\ last_alerts' = last_alerts
         /\ (proc'[t].pass.pc = "deliver" /\ proc[t].pass.pc # "deliver")
            => GateStep(t)
         /\ (proc[t].pass.pc = "deliver" /\ proc'[t] # proc[t])
            => proc[t].pass.aqi >= proc[t].pass.thr
      ]_vars

\* C10 witness: an alert is being attempted for a reading equal to the threshold
C10_Witness ==
    \E t \in Procs :
      /\ proc[t].pass.pc = "deliver"
      /\ proc[t].pass.aqi = proc[t].pass.thr

-----------------------------------------------------------------------------
(* C11 .. C20 *)

\* C11: a location's last-alert timestamp changes only in the check-pass step that
\* follows a confirmed successful alert delivery for that same location (and it
\* becomes the time of that step); a pass reaches that step only from a delivery;
\* registering, report-passes, start, stop and check-passes without a successful
\* delivery for the location leave the timestamp as it was.
C11_TimestampChangesOnlyAfterDelivery ==
    [][/\ \A n \in Names :
            last_alerts'[n] # last_alerts[n]
            => /\ last_alerts'[n] = now
               /\ delivered[n] = now
               /\ \E t \in Procs :
                    /\ proc[t].pass.kind = "check"
                    /\ proc[t].pass.pc = "record"
                    /\ LocationName(proc[t].pass) = n
                    /\ proc'[t].pass.pc = "next"
       /\ \A t \in Procs :
            (proc'[t].pass.pc = "record" /\ proc[t].pass.pc # "record")
            => /\ AlertStep(t)
               /\ delivered'[LocationName(proc[t].pass)] = now
      ]_vars

\* C11 witness: monitoring was started and stopped, both locations are registered,
\* and exactly one of them has a timestamp, that of its confirmed delivery
C11_Witness ==
    /\ stopReturned
    /\ Len(locations) = 2
    /\ last_alerts["A"] = None
    /\ last_alerts["B"] # None
    /\ last_alerts["B"] = delivered["B"]

\* the caller calls start_monitoring in this step
StartCalled ==
    /\ proc[Caller].st = "idle"
    /\ (starts' = starts + 1 \/ proc'[Caller].st = "start_refused")

\* js is one check job due 30 minutes after t and two report jobs at the two
\* fixed times of day
ThreeJobs(js, t) ==
    /\ Len(js) = JobsPerStart
    /\ \E i, j, k \in 1 .. Len(js) :
         /\ {i, j, k} = 1 .. Len(js)
         /\ js[i].func = "check" /\ js[i].next_run = t + CheckEverySeconds
         /\ js[j].func = "report" /\ js[j].at = MorningReportAt
         /\ js[k].func = "report" /\ js[k].at = EveningReportAt

\* the immediate check-pass of start: the caller is at the head of a check-pass
OneImmediatePass ==
    /\ proc'[Caller].st = "pass"
    /\ proc'[Caller].pass = BeginPass("check")

\* C12 as stated: start() called while Stopped moves the engine to Running,
\* performs exactly one immediate check-pass and leaves exactly three recurring
\* jobs registered (check every 30 minutes, reports at two fixed times of day).
C12_StartMovesToRunning ==
    [][/\ (~running /\ StartCalled)
          => /\ running'
             /\ ThreeJobs(jobs', now)
             /\ OneImmediatePass
       /\ (proc[Caller].st = "pass" /\ proc'[Caller].st # "pass")
          => proc'[Caller].st = "idle"
      ]_vars

\* C12 as amended: start() called while Stopped with at least one location
\* registered moves the engine to Running, performs exactly one immediate
\* check-pass and leaves exactly three recurring jobs registered; with no location
\* registered it changes nothing: the engine stays Stopped, no job is registered,
\* no thread is started and no pass is run.
C12_StartWithLocationsMovesToRunning ==
    [][/\ (~running /\ StartCalled /\ locations # << >>)
          => /\ running'
             /\ ThreeJobs(jobs', now)
             /\ starts' = starts + 1
             /\ OneImmediatePass
       /\ (~running /\ StartCalled /\ locations = << >>)
          => /\ UNCHANGED <<running, jobs, starts, locations, last_alerts>>
             /\ proc'[Caller].pass = NoPass
             /\ \A t \in Threads : proc'[t] = proc[t]
       /\ (proc[Caller].st = "start_refused" /\ proc'[Caller] # proc[Caller])
          => /\ proc'[Caller] = IdleProc
             /\ UNCHANGED <<running, jobs, starts, locations, last_alerts>>
       /\ (proc[Caller].st = "pass" /\ proc'[Caller].st # "pass")
          => proc'[Caller].st = "idle"
      ]_vars

\* C12 witness: monitoring was started, stopped and started again: the engine is
\* Running with three jobs and the caller is at the head of the immediate pass
C12_Witness ==
    /\ starts = 2
    /\ running
    /\ ThreeJobs(jobs, now)
    /\ proc[Caller].st = "pass"
    /\ proc[Caller].pass = BeginPass("check")

\* C13: when stop() returns the engine is Stopped and no recurring job is
\* registered, whatever start and stop calls came before; it stays so until the
\* next start.
C13_StopLeavesNoJobs ==
    [][/\ (proc[Caller].st = "stop_clear" /\ proc'[Caller].st # "stop_clear")
          => /\ proc'[Caller].st = "idle"
             /\ ~running'
             /\ jobs' = << >>
       /\ stopReturned' => (~running' /\ jobs' = << >>)
      ]_vars

\* C13 witness: stop() has returned after the second start while a scheduler
\* thread is still inside a pass
C13_Witness ==
    /\ stopReturned
    /\ starts = 2
    /\ ~running
    /\ jobs = << >>
    /\ \E t \in Threads : proc[t].st = "job"

\* process t is done with a location whose fetch succeeded in this step
LocationDone(t) ==
    /\ proc[t].pass.kind = "check"
    /\ proc[t].pass.pc \in {"gate", "deliver", "record"}
    /\ proc'[t].pass.pc = "next"

\* C14: in a check-pass, for every location whose fetch succeeded, a record
\* carrying the index and its category is emitted whatever the alert outcome was:
\* no breach, breach suppressed by the cooldown, delivery succeeded, delivery failed.
C14_RecordWhateverTheOutcome ==
    [][\A t \in Procs :
         LocationDone(t)
         => /\ proc'[t].pass.log.level = "info"
            /\ proc'[t].pass.log.aqi = proc[t].pass.aqi
            /\ proc'[t].pass.log.category = get_aqi_category(proc[t].pass.aqi * Scale)
      ]_vars

\* process t holds a composed daily report that is about to be sent
ReportComposed(t) ==
    /\ proc[t].pass.kind = "report"
    /\ proc[t].pass.pc = "send"

\* C15: in a report-pass the summary bucket of a location is a function of the
\* arithmetic mean m of its two readings only: m <= 50 good throughout,
\* 50 < m <= 100 moderate, 100 < m <= 150 unhealthy for sensitive, m > 150 poor;
\* readings 40 and 60 (mean 50) give good throughout.  (2 * m is the sum.)
C15_SummaryIsBucketOfMean ==
    \A t \in Procs :
      ReportComposed(t)
      => LET r == proc[t].pass.report
             sum == r.morning + r.evening
         IN /\ sum <= 2 * 50 => r.summary = "good"
            /\ (2 * 50 < sum /\ sum <= 2 * 100) => r.summary = "moderate"
            /\ (2 * 100 < sum /\ sum <= 2 * 150) => r.summary = "sensitive"
            /\ 2 * 150 < sum => r.summary = "poor"
            /\ (r.morning = 40 /\ r.evening = 60) => r.summary = "good"

\* C15 witness: a report composed from the readings 40 and 60 is about to be sent
C15_Witness ==
    \E t \in Procs :
      /\ ReportComposed(t)
      /\ proc[t].pass.report.morning = 40
      /\ proc[t].pass.report.evening = 60
      /\ proc[t].pass.report.summary = "good"

\* C16: within one check-pass at most one alert delivery attempt is made per
\* location: after a failed delivery the pass leaves the location without sending
\* again and without recording, so a retry can only come from a later pass.
C16_OneAlertAttemptPerLocation ==
    [][\A t \in Procs :
         /\ proc'[t].pass.kind = "check"
            => \A n \in Names : proc'[t].pass.attempts[n] <= 1
         /\ (AlertStep(t) /\ proc'[t].pass.pc # "record")
            => /\ proc'[t].pass.pc = "next"
               /\ proc'[t].pass.attempts[LocationName(proc[t].pass)] = 1
               /\ last_alerts' = last_alerts
      ]_vars

\* C16 witness: a check-pass is past a location that breached and whose one
\* delivery attempt failed: the record is logged and no timestamp is kept
C16_Witness ==
    \E t \in Procs :
      /\ proc[t].pass.kind = "check"
      /\ proc[t].pass.pc = "next"
      /\ proc[t].pass.idx = 1
      /\ proc[t].pass.attempts["A"] = 1
      /\ proc[t].pass.log.level = "info"
      /\ last_alerts["A"] = None

\* C17: within one report-pass at most one daily-report delivery attempt is made
\* per location, whether it succeeds or fails: after the attempt the pass leaves
\* the location, and the attempt changes nothing of the engine's state (registry,
\* cooldown timestamps, running flag, jobs).
C17_OneReportAttemptPerLocation ==
    [][\A t \in Procs :
         /\ proc'[t].pass.kind = "report"
            => \A n \in Names : proc'[t].pass.attempts[n] <= 1
         /\ ReportStep(t)
            => /\ proc'[t].pass.pc = "next"
               /\ proc'[t].pass.idx = proc[t].pass.idx
               /\ proc'[t].pass.attempts[LocationName(proc[t].pass)] = 1
               /\ UNCHANGED <<locations, last_alerts, running, jobs, starts>>
      ]_vars

\* C17 witness: a report-pass over two locations has made one attempt for each
C17_Witness ==
    \E t \in Procs :
      /\ proc[t].pass.kind = "report"
      /\ proc[t].pass.pc = "next"
      /\ proc[t].pass.idx = 2
      /\ proc[t].pass.attempts["A"] = 1
      /\ proc[t].pass.attempts["B"] = 1

\* the places of the registry that hold an entry under the name n
Places(locs, n) == { i \in 1 .. Len(locs) : locs[i].name = n }

\* C18: register(name, lat, lon, threshold) is an upsert: afterwards the registry
\* maps the name to exactly the given latitude, longitude and threshold, replacing
\* an earlier entry under the same case-sensitive name; every entry under another
\* name is unchanged and keeps its place; no name is ever held twice.
C18_RegisterIsUpsert ==
    [][/\ locations' # locations
          => \E n \in RegistryNames, lat \in RegistryLats, lon \in RegistryLons,
                thr \in RegistryThresholds :
               /\ \E i \in 1 .. Len(locations') :
                    locations'[i] = Entry(n, lat, lon, thr)
               /\ \A j \in 1 .. Len(locations) :
                    locations[j].name # n => locations'[j] = locations[j]
               /\ Len(locations') =
                    IF Places(locations, n) = { } THEN Len(locations) + 1
                    ELSE Len(locations)
       /\ \A n \in RegistryNames : Cardinality(Places(locations', n)) <= 1
      ]_vars

\* C18 witness: "A" and "a" are two entries, each with its own values
C18_Witness ==
    /\ Len(locations) = 2
    /\ locations[1] = Entry("A", -6, 106, 120)
    /\ locations[2] = Entry("a", -7, 110, 100)

\* C19: register with a threshold that is not a non-negative integer (a negative
\* number) fails and leaves the registry unchanged, so the registry never holds an
\* entry with a negative threshold.
C19_NegativeThresholdIsRejected ==
    \A i \in 1 .. Len(locations) : locations[i].alert_threshold >= 0

\* the pass of process t is over in this step, by return or by an exception
PassEnds(t) == InPass(t) /\ proc'[t].pass.kind = "none"

\* C20: within one pass every location registered at the start of the pass is
\* processed exactly once, in the registry's order: the pass takes the entries one
\* place after the other, and it is over only when the last place held at its
\* start has been taken.
C20_PassVisitsEveryLocationOnce ==
    [][\A t \in Procs :
         /\ FetchStep(t) => proc'[t].pass.idx = proc[t].pass.idx + 1
         /\ (InPass(t) /\ ~PassEnds(t))
            => proc'[t].pass.idx \in {proc[t].pass.idx, proc[t].pass.idx + 1}
         /\ PassEnds(t) => proc[t].pass.idx = proc[t].pass.size
      ]_vars

-----------------------------------------------------------------------------
(* C21 .. C28 *)

\* C21: registering a new location while a background check-pass or report-pass is
\* in flight is safe: the scheduler thread leaves the pass only by returning from
\* it, after the locations it had left, and goes on with its loop.
C21_RegisteringDuringPassIsSafe ==
    [][\A t \in Threads :
         (proc[t].st = "job" /\ proc'[t].st # "job")
         => /\ proc'[t].st = "jobs"
            /\ proc[t].pass.idx >= proc[t].pass.size
      ]_vars

\* scheduler thread t finds self.running true and goes round its loop once more
LoopGoesOn(t) == proc[t].st = "loop" /\ proc'[t].st = "run_pending"

\* C22: after any sequence of start() and stop() calls, each start made while
\* Stopped, at most one scheduler thread is executing scheduled jobs: only the
\* thread of the latest start goes round its loop again; a thread of an earlier
\* start, stopped since, does not find the flag set by the later start.
C22_OneSchedulerLoop ==
    [][\A t \in Threads : LoopGoesOn(t) => t = starts]_vars

\* stop_monitoring of this engine returns in this step
StopReturns == proc[Caller].st = "stop_clear" /\ proc'[Caller].st = "idle"

\* C23: stop() on one engine leaves the recurring jobs and the Running state of
\* every other engine of the process as they were, and a running engine's
\* scheduler loop executes only that engine's own jobs.
C23_EnginesDoNotShareJobs ==
    [][/\ StopReturns
          => /\ PeerJobsOf(jobs') = PeerJobsOf(jobs)
             /\ peer' = peer
       /\ \A t \in Threads :
            (proc[t].st = "jobs" /\ proc'[t].st = "job") => proc'[t].job > 0
      ]_vars

\* C24: a last-alert timestamp, once recorded, is never cleared and never moves
\* backwards: whatever step is taken (register, re-register, check-pass,
\* report-pass, start, stop), the location still has a timestamp and it is greater
\* than or equal to the one it had.
C24_TimestampIsKeptAndGrows ==
    [][\A n \in Names :
         last_alerts[n] # None
         => /\ last_alerts'[n] # None
            /\ last_alerts'[n] >= last_alerts[n]
      ]_vars

\* C24 witness: the timestamp recorded after the first clock step is still there
\* two clock steps (nearly a day) later, with both locations registered and
\* monitoring stopped
C24_Witness ==
    /\ last_alerts["A"] = ClockSteps[1]
    /\ now = ClockSteps[1] + ClockSteps[2] + ClockSteps[3]
    /\ Len(locations) = 2
    /\ locations[2].name = "A"
    /\ stopReturned

\* C25: the mean carried in a daily-report message is the arithmetic mean of the
\* two readings of that message, (morning + evening) / 2, for every pair of
\* readings, pairs with an odd sum included, so the mean shown falls in the same
\* bucket as the summary shown with it.
C25_ShownMeanIsTheMean ==
    \A t \in Procs :
      ReportComposed(t)
      => LET r == proc[t].pass.report
         IN /\ 2 * r.avg = r.morning + r.evening
            /\ daily_summary(r.avg, r.avg) = r.summary

\* C26: in a report-pass, if either of a location's two fetches fails, no daily
\* report is attempted for that location (a report is sent only when it was
\* composed from two readings; a failed fetch moves the pass to the next location
\* with no attempt made), and every other location still gets its report
\* attempted: the pass takes the locations one by one and returns after the last.
C26_ReportNeedsBothFetches ==
    [][\A t \in Procs :
         /\ (proc'[t].pass.kind = "report" /\ proc'[t].pass.pc = "send")
            => /\ proc'[t].pass.report.morning \in ReportReadings
               /\ proc'[t].pass.report.evening \in ReportReadings
         /\ ( /\ FetchStep(t)
              /\ proc[t].pass.kind = "report"
              /\ proc'[t].pass.report = NoReport )
            => /\ SamePass(t)
               /\ proc'[t].pass.pc = "next"
               /\ proc'[t].pass.idx = proc[t].pass.idx + 1
               /\ proc'[t].pass.attempts = proc[t].pass.attempts
         /\ ( /\ FetchStep(t)
              /\ proc[t].pass.kind = "report"
              /\ proc'[t].pass.report # NoReport )
            => proc'[t].pass.pc = "send"
         /\ (proc[t].pass.kind = "report" /\ PassEnds(t))
            => proc[t].pass.idx = Len(locations)
      ]_vars

\* C26 witness: the report of the second location is being sent in a pass that
\* made no attempt for the first one
C26_Witness ==
    \E t \in Procs :
      /\ ReportComposed(t)
      /\ proc[t].pass.idx = 2
      /\ proc[t].pass.attempts[locations[1].name] = 0

\* C27: start() with an empty registry does nothing: the call is refused and
\* returns with the engine Stopped, no recurring job registered, no background
\* thread started and no check-pass run; an engine with an empty registry is
\* therefore never Running.
C27_StartWithEmptyRegistryDoesNothing ==
    [][/\ (proc[Caller].st = "idle" /\ proc'[Caller].st = "start_refused")
          => locations = << >>
       /\ (locations = << >> /\ proc[Caller].st = "idle" /\ proc'[Caller] # proc[Caller])
          => /\ proc'[Caller].st \in {"start_refused", "stop_clear", "pass"}
             /\ starts' = starts
             /\ jobs' = jobs
             /\ proc'[Caller].st # "stop_clear" => running' = running
       /\ (proc[Caller].st = "start_refused" \/ proc'[Caller].st = "start_refused")
          => /\ ~running' /\ running' = running
             /\ jobs' = << >> /\ jobs' = jobs
             /\ starts' = starts
             /\ proc'[Caller].pass = NoPass
             /\ \A t \in Threads : proc'[t] = proc[t]
       /\ (proc[Caller].st = "start_refused" /\ proc'[Caller] # proc[Caller])
          => proc'[Caller] = IdleProc
      ]_vars

\* C27 witness: start() has just been refused on an engine with nothing registered
C27_Witness ==
    /\ proc[Caller].st = "start_refused"
    /\ locations = << >>
    /\ ~running
    /\ jobs = << >>
    /\ starts = 0

\* C28: a report-pass neither reads nor writes the cooldown state: every location
\* whose two fetches succeeded gets its report sent, inside its cooldown window or
\* not, and no step of a report-pass changes a last-alert timestamp or the registry.
C28_ReportPassIgnoresCooldown ==
    [][\A t \in Procs :
         /\ (proc[t].pass.kind = "report" /\ proc'[t] # proc[t])
            => UNCHANGED <<last_alerts, locations>>
         /\ (ReportComposed(t) /\ proc'[t] # proc[t])
            => proc'[t].pass.attempts[LocationName(proc[t].pass)]
                 = proc[t].pass.attempts[LocationName(proc[t].pass)] + 1
      ]_vars

\* C28 witness: a report was sent for a location that is inside its cooldown window
C28_Witness ==
    \E t \in Procs :
      /\ proc[t].pass.kind = "report"
      /\ proc[t].pass.pc = "next"
      /\ proc[t].pass.idx = 1
      /\ proc[t].pass.attempts[locations[1].name] = 1
      /\ last_alerts[locations[1].name] # None
      /\ ~ShouldAlert(last_alerts[locations[1].name], now)

====
